---- MODULE Spec2Model ----
(***************************************************************************)
(* Model of the podcast assembly pipeline of zuche-ai/doc-to-podcast:      *)
(*   - combined-mode render  (generate_podcast.py, generate_podcast_gtts.py)*)
(*   - segment-mode render   (generate_podcast_simple.py, ..._coqui.py)     *)
(*   - segment combiners     (combine_podcast.py, combine_podcast_wav.py)   *)
(* One run of one entry point is one behaviour; prog names the entry point. *)
(* Besides Spec: SpecNaming (segment file names), SpecTextToSpeech (one     *)
(* text_to_speech call), SpecPipeline (segment run, then its combiner) and  *)
(* SpecTwice (two successive combiner runs); SpecConcurrent (two combiner   *)
(* runs at once in one working directory).                                 *)
(* File names are sequences of character codes, so that Python's string    *)
(* ordering (sorted, list.sort) is computed and not assumed.               *)
(***************************************************************************)
EXTENDS Integers, Sequences, FiniteSets, TLC

VARIABLES
    prog,            \* entry point of this run
    pc,              \* position of the run inside its function
    api_key,         \* generate_podcast.py: whether an API key was given
    script,          \* the content of the script file: sequence of entries
    add_intro,       \* generate_podcast argument
    add_outro,       \* generate_podcast argument
    i,               \* enumerate index of the loop (0-based, as in Python)
    podcast_audio,   \* combined mode: the timeline assembled so far
    tempFiles,       \* existing temp_<speaker>_<i>.mp3 files, as <<speaker, i>>
    synthCalls,      \* 0-based line indices handed to text_to_speech, in order
    synthFailed,     \* line indices whose text_to_speech returned False
    exportCalls,     \* number of podcast_audio.export invocations
    outputFile,      \* the output file was written by this run
    result,          \* "running", "True", "False" or "raised"
    raisedBy,        \* "none", or the call whose exception left the function
    dirFiles,        \* names of the files in the segments / output directory
    written,         \* segment mode: names written by this run, in order
    segments_dir,    \* combiner argument (directory name)
    pause_duration,  \* combiner argument (seconds)
    listing,         \* combiner: what glob.glob returned, in listing order
    segment_files,   \* combiner: the sorted list of matching paths
    file_list,       \* combiner: the entries written to the concat list file
    listFile,        \* combiner: the temporary list file exists
    silenceFiles,    \* combiner: existing temp_silence_<N>.mp3, as the set of N
    concatCalls,     \* combiner: number of invocations of the concat command
    concatInput,     \* combiner: the list the concat command read
    concatStatus,    \* combiner: "none", or how the concat command ended
    lineA,           \* naming: first line  [index, speaker]
    lineB,           \* naming: second line [index, speaker]
    nameA,           \* naming: segment file name of lineA
    nameB,           \* naming: segment file name of lineB
    scriptFile,      \* generators: "ok", "missing" or "invalid" (not JSON)
    caller_pause,    \* combined mode: the pause (ms) the caller wants between clips
    diag,            \* combiners: what the concat command writes to its stderr
    output_file,     \* combiners: the output path argument
    dirAtStart,      \* the content of the directory when the first run started
    reported,        \* combiners: the parts of the error message printed
    partial,         \* generators: lines whose destination a failed call left behind
    run,             \* 1, or 2 in the second of two successive combiner runs
    firstInput,      \* second run: the list the concat command read in the first
                     \* run, and the directory content when the second run started
    ttsIn,           \* text_to_speech on its own: the arguments and the object
    ttsOut,          \* text_to_speech on its own: the outcome
    use_voice_cloning, \* generate_podcast_coqui.py: constructor argument
    sampleFiles,     \* the files that exist in voice_samples/
    createdSamples,  \* the files of voice_samples/ this run created
    variantCalls,    \* the synthesis variant that served each text_to_speech call
    conc             \* two concurrent MP3 combiner runs: the shared working
                     \* directory and the position of each run

vars == << prog, pc, api_key, script, add_intro, add_outro, i, podcast_audio,
           tempFiles, synthCalls, synthFailed, exportCalls, outputFile, result,
           raisedBy, dirFiles, written, segments_dir, pause_duration, listing,
           segment_files, file_list, listFile, silenceFiles, concatCalls,
           concatInput, concatStatus, lineA, lineB, nameA, nameB, scriptFile,
           caller_pause, diag, output_file, dirAtStart, reported, partial, run,
           firstInput, ttsIn, ttsOut, use_voice_cloning, sampleFiles,
           createdSamples, variantCalls, conc >>

genVars  == << api_key, script, add_intro, add_outro, i, podcast_audio,
               tempFiles, synthCalls, synthFailed, exportCalls, written >>
combVars == << segments_dir, pause_duration, listing, segment_files, file_list,
               listFile, silenceFiles, concatCalls, concatInput, concatStatus >>
nameVars == << lineA, lineB, nameA, nameB >>
envVars  == << scriptFile, caller_pause, diag, output_file, dirAtStart >>
runVars  == << run, firstInput >>
ttsVars  == << ttsIn, ttsOut >>
cloneVars == << use_voice_cloning, sampleFiles, createdSamples >>

-----------------------------------------------------------------------------
(* Bounds of the model *)

\* longest script explored
MaxLines == 3
\* most files in a segments directory handed to a combiner
MaxDirFiles == 3
\* longest text handed to text_to_speech on its own
MaxTextLen == 5
\* the naming specification draws line indices 0..SmallIndex besides those around 10^PadWidth
SmallIndex == 11

-----------------------------------------------------------------------------
(* Program constants *)

IntroMs == 3000
PauseMs == 800
OutroMs == 2000
PadWidth == 3
\* sample_rate of the placeholder tone
SampleRate == 44100
\* bits of the significand of a Python float (IEEE 754 binary64)
SignificandBits == 53

-----------------------------------------------------------------------------
(* Strings as sequences of character codes *)

Chars(s) ==
    CASE s = "MIGUEL" -> <<77, 73, 71, 85, 69, 76>>
      [] s = "SAM"    -> <<83, 65, 77>>
      [] s = "Miguel" -> <<77, 105, 103, 117, 101, 108>>
      [] s = "Sam"    -> <<83, 97, 109>>
      [] s = ".mp3"   -> <<46, 109, 112, 51>>
      [] s = ".wav"   -> <<46, 119, 97, 118>>
      [] s = ".txt"   -> <<46, 116, 120, 116>>
      [] s = "_"      -> <<95>>
      [] s = "/"      -> <<47>>
      [] s = "."      -> <<46>>
      [] s = "d"      -> <<100>>
      [] s = "seg"    -> <<115, 101, 103>>
      [] s = "out"    -> <<111, 117, 116>>

\* Python's str < str: code point by code point, a proper prefix is smaller
RECURSIVE StrLess(_, _)
StrLess(a, b) ==
    IF b = <<>> THEN FALSE
    ELSE IF a = <<>> THEN TRUE
    ELSE IF Head(a) # Head(b) THEN Head(a) < Head(b)
    ELSE StrLess(Tail(a), Tail(b))

EndsWith(s, suffix) ==
    /\ Len(s) >= Len(suffix)
    /\ SubSeq(s, Len(s) - Len(suffix) + 1, Len(s)) = suffix

\* decimal digits of n, most significant first
RECURSIVE Digits(_)
Digits(n) == IF n < 10 THEN <<48 + n>> ELSE Digits(n \div 10) \o <<48 + (n % 10)>>

RECURSIVE Zeros(_)
Zeros(k) == IF k <= 0 THEN <<>> ELSE <<48>> \o Zeros(k - 1)

\* format(n, "03d"): at least PadWidth digits, never truncated
Format03d(n) == Zeros(PadWidth - Len(Digits(n))) \o Digits(n)

-----------------------------------------------------------------------------
(* Voice registry and script *)

voices ==
    [ MIGUEL |-> [name |-> "Miguel"],
      SAM    |-> [name |-> "Sam"] ]

KnownSpeakers == DOMAIN voices

\* speakers a script may name; "ANA" is not in the registry
Speakers == KnownSpeakers \cup {"ANA"}

RECURSIVE SeqsUpTo(_, _)
SeqsUpTo(S, n) ==
    IF n = 0 THEN {<<>>}
    ELSE SeqsUpTo(S, n - 1) \cup
         {Append(s, x) : s \in {t \in SeqsUpTo(S, n - 1) : Len(t) = n - 1}, x \in S}

\* the entries json.load may return: both fields, or one of them missing
Entries ==
    {[speaker |-> s, line |-> "text"] : s \in Speakers}
        \cup {[speaker |-> "SAM"], [line |-> "text"]}

\* entry["speaker"] and entry["line"] both exist
HasFields(e) == {"speaker", "line"} \subseteq DOMAIN e

Scripts == SeqsUpTo(Entries, MaxLines)

\* what load_script finds at script_path
ScriptFiles == {"ok", "missing", "invalid"}

\* the entry of the loop iteration at hand (Python index i, TLA+ index i + 1)
Entry == script[i + 1]

Silence(ms) == [kind |-> "silence", ms |-> ms]
Clip(line)  == [kind |-> "clip", line |-> line]

\* os.path.join(output_dir, f"{i+1:03d}_{speaker}_{voice_info['name']}<ext>"),
\* without the directory part
SegmentName(index, speaker, ext) ==
    Format03d(index + 1) \o Chars("_") \o Chars(speaker) \o Chars("_")
        \o Chars(voices[speaker].name) \o Chars(ext)

-----------------------------------------------------------------------------
(* Values of the variables a run of another entry point never touches *)

GenIdle ==
    /\ api_key = FALSE
    /\ script = <<>>
    /\ add_intro = FALSE
    /\ add_outro = FALSE
    /\ i = 0
    /\ podcast_audio = <<>>
    /\ tempFiles = {}
    /\ synthCalls = <<>>
    /\ synthFailed = {}
    /\ exportCalls = 0
    /\ written = <<>>

CombIdle ==
    /\ segments_dir = <<>>
    /\ pause_duration = 0
    /\ listing = <<>>
    /\ segment_files = <<>>
    /\ file_list = <<>>
    /\ listFile = FALSE
    /\ silenceFiles = {}
    /\ concatCalls = 0
    /\ concatInput = <<>>
    /\ concatStatus = "none"

NameIdle ==
    /\ lineA = [index |-> 0, speaker |-> "SAM"]
    /\ lineB = [index |-> 0, speaker |-> "SAM"]
    /\ nameA = <<>>
    /\ nameB = <<>>

CloneIdle ==
    /\ use_voice_cloning = FALSE
    /\ sampleFiles = {}
    /\ createdSamples = {}

\* no concurrent combiner runs
ConcIdle == [active |-> FALSE]

RunIdle ==
    /\ reported = <<>>
    /\ partial = {}
    /\ run = 1
    /\ firstInput = [called |-> FALSE, list |-> <<>>, dir |-> {}]

TtsIdle ==
    /\ ttsIn = [method |-> "none"]
    /\ ttsOut = [returned |-> "none"]

-----------------------------------------------------------------------------
(* Combined mode: PodcastGenerator.generate_podcast *)

CombinedProgs == {"generate_podcast", "generate_podcast_gtts"}

\* the pause a caller may want: the built-in one, or the 1.0 s of the combiner
RequestedPauses == {PauseMs, 1000}

InitCombined ==
    /\ prog \in CombinedProgs
    /\ pc = "load"
    /\ api_key \in (IF prog = "generate_podcast" THEN BOOLEAN ELSE {FALSE})
    /\ scriptFile \in ScriptFiles
    /\ script \in (IF scriptFile = "ok" THEN Scripts ELSE {<<>>})
    /\ caller_pause \in RequestedPauses
    /\ diag = ""
    /\ output_file = <<>>
    /\ RunIdle
    /\ CloneIdle
    /\ variantCalls = <<>>
    /\ conc = ConcIdle
    /\ TtsIdle
    /\ add_intro \in BOOLEAN
    /\ add_outro \in BOOLEAN
    /\ i = 0
    /\ podcast_audio = <<>>
    /\ tempFiles = {}
    /\ synthCalls = <<>>
    /\ synthFailed = {}
    /\ exportCalls = 0
    /\ written = <<>>
    /\ outputFile = FALSE
    /\ result = "running"
    /\ raisedBy = "none"
    /\ dirFiles = {}
    /\ dirAtStart = dirFiles
    /\ CombIdle
    /\ NameIdle

\* script = self.load_script(script_path) returned the parsed list
LoadScript ==
    /\ prog \in CombinedProgs \cup {"generate_podcast_simple", "generate_podcast_coqui"}
    /\ pc = "load"
    /\ scriptFile = "ok"
    /\ pc' = IF prog \in CombinedProgs THEN "intro"
             ELSE IF use_voice_cloning THEN "samples" ELSE "loop"
    /\ UNCHANGED << prog, raisedBy, result, outputFile, dirFiles, genVars, combVars,
                    nameVars, envVars, reported, partial, runVars, ttsVars,
                    cloneVars, variantCalls, conc >>

\* load_script raised FileNotFoundError (no file) or ValueError (not JSON);
\* generate_podcast / generate_podcast_segments does not catch it
LoadScriptRaise ==
    /\ prog \in CombinedProgs \cup {"generate_podcast_simple", "generate_podcast_coqui"}
    /\ pc = "load"
    /\ scriptFile # "ok"
    /\ result' = "raised"
    /\ raisedBy' = "load_script"
    /\ pc' = "done"
    /\ UNCHANGED << prog, outputFile, dirFiles, genVars, combVars,
                    nameVars, envVars, reported, partial, runVars, ttsVars,
                    cloneVars, variantCalls, conc >>

\* speaker = entry["speaker"] or line = entry["line"] raised KeyError in the
\* loop body; nothing catches it, the temp files and segments written for the
\* lines before stay as they are
EntryRaise ==
    /\ prog \in CombinedProgs \cup {"generate_podcast_simple", "generate_podcast_coqui"}
    /\ pc = "loop"
    /\ i < Len(script)
    /\ ~HasFields(Entry)
    /\ result' = "raised"
    /\ raisedBy' = "entry"
    /\ pc' = "done"
    /\ UNCHANGED << prog, outputFile, dirFiles, genVars, combVars,
                    nameVars, envVars, reported, partial, runVars, ttsVars,
                    cloneVars, variantCalls, conc >>

\* if add_intro: podcast_audio += intro
AddIntro ==
    /\ prog \in CombinedProgs
    /\ pc = "intro"
    /\ podcast_audio' = IF add_intro THEN Append(podcast_audio, Silence(IntroMs))
                                     ELSE podcast_audio
    /\ pc' = "loop"
    /\ UNCHANGED << prog, raisedBy, api_key, script, add_intro, add_outro, i, tempFiles,
                    synthCalls, synthFailed, exportCalls, outputFile, result,
                    dirFiles, written, combVars, nameVars, envVars,
                    reported, partial, runVars, ttsVars,
                    cloneVars, variantCalls, conc >>

\* faulty variant of SkipUnknown: an unknown speaker ends the run with failure
SkipUnknown_Aborts ==
    /\ prog \in CombinedProgs
    /\ pc = "loop"
    /\ i < Len(script)
    /\ HasFields(Entry)
    /\ Entry.speaker \notin KnownSpeakers
    /\ result' = "False"
    /\ pc' = "done"
    /\ UNCHANGED << prog, raisedBy, api_key, script, add_intro, add_outro, i,
                    podcast_audio, tempFiles, synthCalls, synthFailed,
                    exportCalls, outputFile, dirFiles, written, combVars,
                    nameVars, envVars,
                    reported, partial, runVars, ttsVars,
                    cloneVars, variantCalls, conc >>

\* if speaker not in self.voices: continue
SkipUnknown ==
    /\ prog \in CombinedProgs
    /\ pc = "loop"
    /\ i < Len(script)
    /\ HasFields(Entry)
    /\ Entry.speaker \notin KnownSpeakers
    /\ i' = i + 1
    /\ UNCHANGED << prog, raisedBy, pc, api_key, script, add_intro, add_outro,
                    podcast_audio, tempFiles, synthCalls, synthFailed,
                    exportCalls, outputFile, result, dirFiles, written,
                    combVars, nameVars, envVars,
                    reported, partial, runVars, ttsVars,
                    cloneVars, variantCalls, conc >>

\* text_to_speech, generate_podcast.py: "if not self.api_key" selects the
\* placeholder, anything else the remote API (api_key is the truth value of the
\* constructor's argument: None and the empty string are both "no key")
Variant(key) == IF key THEN "remote" ELSE "placeholder"

\* the synthesis a call of self.text_to_speech runs in this program
TextToSpeechVariant ==
    IF prog = "generate_podcast" THEN Variant(api_key) ELSE "gtts"

\* text_to_speech(line, ..., temp_audio_path) returned True: the temp file is
\* written (response.content, the placeholder tone, or tts.save)
SynthOk ==
    /\ prog \in CombinedProgs
    /\ pc = "loop"
    /\ i < Len(script)
    /\ HasFields(Entry)
    /\ Entry.speaker \in KnownSpeakers
    /\ synthCalls' = Append(synthCalls, i)
    /\ variantCalls' = Append(variantCalls, TextToSpeechVariant)
    /\ tempFiles' = tempFiles \cup {<<Entry.speaker, i>>}
    /\ pc' = "decode"
    /\ UNCHANGED << prog, raisedBy, api_key, script, add_intro, add_outro, i,
                    podcast_audio, synthFailed, exportCalls, outputFile,
                    result, dirFiles, written, combVars, nameVars, envVars,
                    reported, partial, runVars, ttsVars,
                    cloneVars, conc >>

\* faulty variant of SynthFail: the failure is logged and the loop goes on
SynthFail_Continues ==
    /\ prog \in CombinedProgs
    /\ pc = "loop"
    /\ i < Len(script)
    /\ HasFields(Entry)
    /\ Entry.speaker \in KnownSpeakers
    /\ TextToSpeechVariant # "placeholder"
    /\ synthCalls' = Append(synthCalls, i)
    /\ variantCalls' = Append(variantCalls, TextToSpeechVariant)
    /\ synthFailed' = synthFailed \cup {i}
    /\ i' = i + 1
    /\ UNCHANGED << prog, raisedBy, pc, api_key, script, add_intro, add_outro,
                    podcast_audio, tempFiles, exportCalls, outputFile, result,
                    dirFiles, written, combVars, nameVars, envVars,
                    reported, partial, runVars, ttsVars,
                    cloneVars, conc >>

\* faulty variant of SynthFail: the failed line is handed to text_to_speech again
SynthFail_Retries ==
    /\ prog \in CombinedProgs
    /\ pc = "loop"
    /\ i < Len(script)
    /\ HasFields(Entry)
    /\ Entry.speaker \in KnownSpeakers
    /\ TextToSpeechVariant # "placeholder"
    /\ synthCalls' = Append(synthCalls, i)
    /\ variantCalls' = Append(variantCalls, TextToSpeechVariant)
    /\ synthFailed' = synthFailed \cup {i}
    /\ UNCHANGED << prog, raisedBy, pc, api_key, script, add_intro, add_outro, i,
                    podcast_audio, tempFiles, exportCalls, outputFile, result,
                    dirFiles, written, combVars, nameVars, envVars,
                    reported, partial, runVars, ttsVars,
                    cloneVars, conc >>

\* faulty variant of SynthFail: a failed remote call falls back to the
\* placeholder tone and the line is kept
SynthFail_FallsBack ==
    /\ prog \in CombinedProgs
    /\ pc = "loop"
    /\ i < Len(script)
    /\ HasFields(Entry)
    /\ Entry.speaker \in KnownSpeakers
    /\ TextToSpeechVariant # "placeholder"
    /\ synthCalls' = Append(synthCalls, i)
    /\ variantCalls' = Append(Append(variantCalls, TextToSpeechVariant), "placeholder")
    /\ synthFailed' = synthFailed \cup {i}
    /\ tempFiles' = tempFiles \cup {<<Entry.speaker, i>>}
    /\ pc' = "decode"
    /\ UNCHANGED << prog, raisedBy, api_key, script, add_intro, add_outro, i,
                    podcast_audio, exportCalls, outputFile, result,
                    dirFiles, written, combVars, nameVars, envVars,
                    reported, partial, runVars, ttsVars,
                    cloneVars, conc >>

\* text_to_speech returned False, generate_podcast returns False.
\* generate_podcast.py: only with an API key (RequestException, before the file
\* is opened); without one the placeholder never returns False.
\* generate_podcast_gtts.py: any exception of gTTS; tts.save may have created the
\* file before it failed.
SynthFail ==
    /\ prog \in CombinedProgs
    /\ pc = "loop"
    /\ i < Len(script)
    /\ HasFields(Entry)
    /\ Entry.speaker \in KnownSpeakers
    /\ TextToSpeechVariant # "placeholder"
    /\ synthCalls' = Append(synthCalls, i)
    /\ variantCalls' = Append(variantCalls, TextToSpeechVariant)
    /\ synthFailed' = synthFailed \cup {i}
    /\ \E left \in (IF prog = "generate_podcast_gtts" THEN BOOLEAN ELSE {FALSE}) :
          /\ tempFiles' = IF left THEN tempFiles \cup {<<Entry.speaker, i>>}
                                  ELSE tempFiles
          /\ partial' = IF left THEN partial \cup {i} ELSE partial
    /\ result' = "False"
    /\ pc' = "done"
    /\ UNCHANGED << prog, raisedBy, api_key, script, add_intro, add_outro, i,
                    podcast_audio, exportCalls, outputFile, dirFiles, written,
                    combVars, nameVars, envVars,
                    reported, runVars, ttsVars,
                    cloneVars, conc >>

\* generate_podcast.py: text_to_speech raised something that is no
\* RequestException (open / wave.open / numpy); nothing in generate_podcast
\* catches it. The temp file may have been created already.
SynthRaise ==
    /\ prog = "generate_podcast"
    /\ pc = "loop"
    /\ i < Len(script)
    /\ HasFields(Entry)
    /\ Entry.speaker \in KnownSpeakers
    /\ synthCalls' = Append(synthCalls, i)
    /\ variantCalls' = Append(variantCalls, TextToSpeechVariant)
    /\ \E left \in BOOLEAN :
          /\ tempFiles' = IF left THEN tempFiles \cup {<<Entry.speaker, i>>}
                                  ELSE tempFiles
          /\ partial' = IF left THEN partial \cup {i} ELSE partial
    /\ result' = "raised"
    /\ raisedBy' = "text_to_speech"
    /\ pc' = "done"
    /\ UNCHANGED << prog, api_key, script, add_intro, add_outro, i,
                    podcast_audio, synthFailed, exportCalls, outputFile,
                    dirFiles, written, combVars, nameVars, envVars,
                    reported, runVars, ttsVars,
                    cloneVars, conc >>

\* segment_audio = AudioSegment.from_mp3(temp); podcast_audio += segment_audio;
\* if i < len(script) - 1: add_pause(podcast_audio, 800); os.remove(temp)
DecodeOk ==
    /\ prog \in CombinedProgs
    /\ pc = "decode"
    /\ podcast_audio' =
          IF i < Len(script) - 1
          THEN Append(Append(podcast_audio, Clip(i)), Silence(PauseMs))
          ELSE Append(podcast_audio, Clip(i))
    /\ tempFiles' = tempFiles \ {<<Entry.speaker, i>>}
    /\ i' = i + 1
    /\ pc' = "loop"
    /\ UNCHANGED << prog, raisedBy, api_key, script, add_intro, add_outro, synthCalls,
                    synthFailed, exportCalls, outputFile, result, dirFiles,
                    written, combVars, nameVars, envVars,
                    reported, partial, runVars, ttsVars,
                    cloneVars, variantCalls, conc >>

\* AudioSegment.from_mp3 raised (the decoder rejects the file): the exception
\* leaves generate_podcast before os.remove
DecodeRaise ==
    /\ prog \in CombinedProgs
    /\ pc = "decode"
    /\ result' = "raised"
    /\ raisedBy' = "from_mp3"
    /\ pc' = "done"
    /\ UNCHANGED << prog, api_key, script, add_intro, add_outro, i,
                    podcast_audio, tempFiles, synthCalls, synthFailed,
                    exportCalls, outputFile, dirFiles, written, combVars,
                    nameVars, envVars,
                    reported, partial, runVars, ttsVars,
                    cloneVars, variantCalls, conc >>

\* if add_outro: podcast_audio += outro
AddOutro ==
    /\ prog \in CombinedProgs
    /\ pc = "loop"
    /\ i = Len(script)
    /\ podcast_audio' = IF add_outro THEN Append(podcast_audio, Silence(OutroMs))
                                     ELSE podcast_audio
    /\ pc' = "export"
    /\ UNCHANGED << prog, raisedBy, api_key, script, add_intro, add_outro, i, tempFiles,
                    synthCalls, synthFailed, exportCalls, outputFile, result,
                    dirFiles, written, combVars, nameVars, envVars,
                    reported, partial, runVars, ttsVars,
                    cloneVars, variantCalls, conc >>

\* podcast_audio.export(output_path, ...) succeeded; return True
ExportOk ==
    /\ prog \in CombinedProgs
    /\ pc = "export"
    /\ exportCalls' = exportCalls + 1
    /\ outputFile' = TRUE
    /\ result' = "True"
    /\ pc' = "done"
    /\ UNCHANGED << prog, raisedBy, api_key, script, add_intro, add_outro, i,
                    podcast_audio, tempFiles, synthCalls, synthFailed,
                    dirFiles, written, combVars, nameVars, envVars,
                    reported, partial, runVars, ttsVars,
                    cloneVars, variantCalls, conc >>

\* podcast_audio.export raised; the output file may have been opened already
ExportRaise ==
    /\ prog \in CombinedProgs
    /\ pc = "export"
    /\ exportCalls' = exportCalls + 1
    /\ outputFile' \in BOOLEAN
    /\ result' = "raised"
    /\ raisedBy' = "export"
    /\ pc' = "done"
    /\ UNCHANGED << prog, api_key, script, add_intro, add_outro, i,
                    podcast_audio, tempFiles, synthCalls, synthFailed,
                    dirFiles, written, combVars, nameVars, envVars,
                    reported, partial, runVars, ttsVars,
                    cloneVars, variantCalls, conc >>


-----------------------------------------------------------------------------
(* Segment mode: SimplePodcastGenerator / CoquiPodcastGenerator              *)
(* generate_podcast_segments                                                 *)

SegmentProgs == {"generate_podcast_simple", "generate_podcast_coqui"}

\* voice_samples/miguel_sample.wav and voice_samples/sam_sample.wav, in the
\* order create_default_voice_samples visits them
SampleOrder == << "miguel_sample", "sam_sample" >>
VoiceSamples == {SampleOrder[k] : k \in 1..Len(SampleOrder)}

\* the extension each generator gives its segments
SegmentExt(p) == IF p = "generate_podcast_coqui" THEN ".wav" ELSE ".mp3"

\* files an earlier run may have left in output_dir (os.makedirs(exist_ok=True)
\* keeps them)
StaleNames(ext) == {SegmentName(0, "SAM", ext), SegmentName(MaxLines, "MIGUEL", ext)}

InitSegment ==
    /\ prog \in SegmentProgs
    /\ pc = "load"
    /\ api_key = FALSE
    /\ scriptFile \in ScriptFiles
    /\ script \in (IF scriptFile = "ok" THEN Scripts ELSE {<<>>})
    /\ caller_pause = PauseMs
    /\ diag = ""
    /\ output_file = <<>>
    /\ RunIdle
    /\ use_voice_cloning \in (IF prog = "generate_podcast_coqui" THEN BOOLEAN ELSE {FALSE})
    /\ sampleFiles \in (IF use_voice_cloning THEN SUBSET VoiceSamples ELSE {{}})
    /\ createdSamples = {}
    /\ variantCalls = <<>>
    /\ conc = ConcIdle
    /\ TtsIdle
    /\ add_intro = FALSE
    /\ add_outro = FALSE
    /\ i = 0
    /\ podcast_audio = <<>>
    /\ tempFiles = {}
    /\ synthCalls = <<>>
    /\ synthFailed = {}
    /\ exportCalls = 0
    /\ written = <<>>
    /\ outputFile = FALSE
    /\ result = "running"
    /\ raisedBy = "none"
    /\ dirFiles \in SUBSET StaleNames(SegmentExt(prog))
    /\ dirAtStart = dirFiles
    /\ CombIdle
    /\ NameIdle

\* if self.use_voice_cloning: self.create_default_voice_samples(): every
\* sample that does not exist is synthesized into voice_samples/; nothing in
\* the program removes it
CreateVoiceSamples ==
    /\ prog = "generate_podcast_coqui"
    /\ pc = "samples"
    /\ sampleFiles' = VoiceSamples
    /\ createdSamples' = VoiceSamples \ sampleFiles
    /\ pc' = "loop"
    /\ UNCHANGED << prog, raisedBy, result, outputFile, dirFiles, genVars, combVars,
                    nameVars, envVars, reported, partial, runVars, ttsVars,
                    use_voice_cloning, variantCalls, conc >>

\* tts_to_file raised for the k-th sample: the samples created before it stay,
\* the failing one may have been created; generate_podcast_segments does not
\* catch the exception
CreateVoiceSamplesRaise ==
    /\ prog = "generate_podcast_coqui"
    /\ pc = "samples"
    /\ \E k \in 1..Len(SampleOrder) :
          /\ SampleOrder[k] \notin sampleFiles
          /\ \E left \in BOOLEAN :
                createdSamples' =
                    {SampleOrder[j] : j \in {n \in 1..(k - 1) : SampleOrder[n] \notin sampleFiles}}
                        \cup (IF left THEN {SampleOrder[k]} ELSE {})
    /\ sampleFiles' = sampleFiles \cup createdSamples'
    /\ result' = "raised"
    /\ raisedBy' = "create_default_voice_samples"
    /\ pc' = "done"
    /\ UNCHANGED << prog, outputFile, dirFiles, genVars, combVars,
                    nameVars, envVars, reported, partial, runVars, ttsVars,
                    use_voice_cloning, variantCalls, conc >>

\* if speaker not in self.voices: continue
SegSkipUnknown ==
    /\ prog \in SegmentProgs
    /\ pc = "loop"
    /\ i < Len(script)
    /\ HasFields(Entry)
    /\ Entry.speaker \notin KnownSpeakers
    /\ i' = i + 1
    /\ UNCHANGED << prog, raisedBy, pc, api_key, script, add_intro, add_outro,
                    podcast_audio, tempFiles, synthCalls, synthFailed,
                    exportCalls, outputFile, result, dirFiles, written,
                    combVars, nameVars, envVars,
                    reported, partial, runVars, ttsVars,
                    cloneVars, variantCalls, conc >>

\* text_to_speech(line, voice_info, output_path) returned True: the segment
\* file exists at output_path (created or overwritten)
SegSynthOk ==
    /\ prog \in SegmentProgs
    /\ pc = "loop"
    /\ i < Len(script)
    /\ HasFields(Entry)
    /\ Entry.speaker \in KnownSpeakers
    /\ synthCalls' = Append(synthCalls, i)
    /\ LET name == SegmentName(i, Entry.speaker, SegmentExt(prog)) IN
          /\ dirFiles' = dirFiles \cup {name}
          /\ written' = Append(written, name)
    /\ i' = i + 1
    /\ UNCHANGED << prog, raisedBy, pc, api_key, script, add_intro, add_outro,
                    podcast_audio, tempFiles, synthFailed, exportCalls,
                    outputFile, result, combVars, nameVars, envVars,
                    reported, partial, runVars, ttsVars,
                    cloneVars, variantCalls, conc >>

\* faulty variant of SegSynthFail: the failing run removes the segments it wrote
SegSynthFail_CleansUp ==
    /\ prog \in SegmentProgs
    /\ pc = "loop"
    /\ i < Len(script)
    /\ HasFields(Entry)
    /\ Entry.speaker \in KnownSpeakers
    /\ synthCalls' = Append(synthCalls, i)
    /\ synthFailed' = synthFailed \cup {i}
    /\ dirFiles' = dirFiles \ {written[k] : k \in 1..Len(written)}
    /\ result' = "False"
    /\ pc' = "done"
    /\ UNCHANGED << prog, raisedBy, api_key, script, add_intro, add_outro, i,
                    podcast_audio, tempFiles, exportCalls, outputFile, written,
                    combVars, nameVars, envVars,
                    reported, partial, runVars, ttsVars,
                    cloneVars, variantCalls, conc >>

\* text_to_speech caught an exception and returned False; the run returns
\* False. The backend may have created the file before it failed.
SegSynthFail ==
    /\ prog \in SegmentProgs
    /\ pc = "loop"
    /\ i < Len(script)
    /\ HasFields(Entry)
    /\ Entry.speaker \in KnownSpeakers
    /\ synthCalls' = Append(synthCalls, i)
    /\ synthFailed' = synthFailed \cup {i}
    /\ \E left \in BOOLEAN :
          /\ dirFiles' = IF left
                         THEN dirFiles \cup {SegmentName(i, Entry.speaker, SegmentExt(prog))}
                         ELSE dirFiles
          /\ partial' = IF left THEN partial \cup {i} ELSE partial
    /\ result' = "False"
    /\ pc' = "done"
    /\ UNCHANGED << prog, raisedBy, api_key, script, add_intro, add_outro, i,
                    podcast_audio, tempFiles, exportCalls, outputFile, written,
                    combVars, nameVars, envVars,
                    reported, runVars, ttsVars,
                    cloneVars, variantCalls, conc >>

\* the loop is over: return True
SegFinish ==
    /\ prog \in SegmentProgs
    /\ pc = "loop"
    /\ i = Len(script)
    /\ result' = "True"
    /\ pc' = "done"
    /\ UNCHANGED << prog, raisedBy, api_key, script, add_intro, add_outro, i,
                    podcast_audio, tempFiles, synthCalls, synthFailed,
                    exportCalls, outputFile, dirFiles, written, combVars,
                    nameVars, envVars,
                    reported, partial, runVars, ttsVars,
                    cloneVars, variantCalls, conc >>


-----------------------------------------------------------------------------
(* Segment combiners: combine_podcast_segments (MP3, with pauses) and        *)
(* combine_audio_segments (WAV)                                              *)

CombinerProgs == {"combine_podcast", "combine_podcast_wav"}

\* the extension each combiner globs for
CombExt(p) == IF p = "combine_podcast_wav" THEN ".wav" ELSE ".mp3"

\* os.path.join(dir, name)
JoinPath(dir, name) == dir \o Chars("/") \o name

\* the file name of a path built by JoinPath(segments_dir, name)
Basename(path) == SubSeq(path, Len(segments_dir) + 2, Len(path))

\* glob's "*<ext>": the name ends with ext and is not a dot file
GlobMatches(name, ext) == EndsWith(name, Chars(ext)) /\ Head(name) # 46

\* the orders in which a directory listing may return the set S
Listings(S) ==
    {f \in [1..Cardinality(S) -> S] : \A a, b \in 1..Cardinality(S) : a # b => f[a] # f[b]}

\* sorted(...) / list.sort(): ascending by Python's string order
RECURSIVE Insert(_, _)
Insert(x, s) ==
    IF s = <<>> THEN <<x>>
    ELSE IF StrLess(x, Head(s)) THEN <<x>> \o s
    ELSE <<Head(s)>> \o Insert(x, Tail(s))

\* faulty variant of Sorted: the listing order is kept
Unsorted(s) == s

RECURSIVE Sorted(_)
Sorted(s) == IF s = <<>> THEN <<>> ELSE Insert(s[Len(s)], Sorted(SubSeq(s, 1, Len(s) - 1)))

\* a line "file '<path>'" of the concat list
SegmentEntry(path) == [kind |-> "segment", path |-> path]
\* the line naming temp_silence_<n>.mp3, generated with -t <seconds>
SilenceEntry(n, seconds) == [kind |-> "silence", n |-> n, seconds |-> seconds]

\* what a segments directory may hold
DirUniverse ==
    {SegmentName(0, "SAM", e) : e \in {".mp3", ".wav"}}
        \cup {SegmentName(1, "MIGUEL", e) : e \in {".mp3", ".wav"}}
        \cup {SegmentName(9, "SAM", e) : e \in {".mp3", ".wav"}}
        \cup {Chars("seg") \o Chars(".txt"), Chars(".mp3")}

\* stderr texts of a failing concat command
Diagnostics == {"No such file or directory", "Invalid data found when processing input"}

\* args.output, a path relative to the working directory
OutputName == Chars("out") \o Chars(".mp3")

\* the output path lies in the segments directory
OutputInDir ==
    /\ Len(output_file) > Len(segments_dir)
    /\ SubSeq(output_file, 1, Len(segments_dir) + 1) = segments_dir \o Chars("/")

\* the directory after the concat command ran: the output file is one of its
\* files when the command wrote it there
DirWithOutput(wrote) ==
    IF wrote /\ OutputInDir THEN dirFiles \cup {Basename(output_file)} ELSE dirFiles

InitCombiner ==
    /\ prog \in CombinerProgs
    /\ pc = "glob"
    /\ GenIdle
    /\ outputFile = FALSE
    /\ result = "running"
    /\ raisedBy = "none"
    /\ dirFiles \in {S \in SUBSET DirUniverse : Cardinality(S) <= MaxDirFiles}
    /\ segments_dir \in {Chars("d"), Chars("seg")}
    /\ pause_duration \in (IF prog = "combine_podcast" THEN {1, 2} ELSE {0})
    /\ listing = <<>>
    /\ segment_files = <<>>
    /\ file_list = <<>>
    /\ listFile = FALSE
    /\ silenceFiles = {}
    /\ concatCalls = 0
    /\ concatInput = <<>>
    /\ concatStatus = "none"
    /\ NameIdle
    /\ scriptFile = "ok"
    /\ caller_pause = PauseMs
    /\ diag \in Diagnostics
    /\ output_file = OutputName
    /\ dirAtStart = dirFiles
    /\ RunIdle
    /\ CloneIdle
    /\ variantCalls = <<>>
    /\ conc = ConcIdle
    /\ TtsIdle

\* segment_files = sorted(glob.glob(os.path.join(segments_dir, "*.mp3")))
\* audio_files = glob.glob(...); audio_files.sort()
CombGlob ==
    /\ prog \in CombinerProgs
    /\ pc = "glob"
    /\ \E order \in Listings({n \in dirFiles : GlobMatches(n, CombExt(prog))}) :
          /\ listing' = [k \in 1..Len(order) |-> JoinPath(segments_dir, order[k])]
          /\ segment_files' = Sorted(listing')
    /\ pc' = "check"
    /\ UNCHANGED << prog, raisedBy, genVars, outputFile, result, dirFiles, segments_dir,
                    pause_duration, file_list, listFile, silenceFiles,
                    concatCalls, concatInput, concatStatus, nameVars, envVars,
                    reported, partial, runVars, ttsVars,
                    cloneVars, variantCalls, conc >>

\* faulty variant of CombEmpty: the empty check is missing, the list file is opened
CombEmpty_Proceeds ==
    /\ prog \in CombinerProgs
    /\ pc = "check"
    /\ segment_files = <<>>
    /\ listFile' = TRUE
    /\ pc' = IF prog = "combine_podcast" THEN "write" ELSE "concat"
    /\ UNCHANGED << prog, raisedBy, genVars, outputFile, result, dirFiles, segments_dir,
                    pause_duration, listing, segment_files, file_list,
                    silenceFiles, concatCalls, concatInput, concatStatus,
                    nameVars, envVars,
                    reported, partial, runVars, ttsVars,
                    cloneVars, variantCalls, conc >>

\* if not segment_files: return False
CombEmpty ==
    /\ prog \in CombinerProgs
    /\ pc = "check"
    /\ segment_files = <<>>
    /\ result' = "False"
    /\ pc' = "done"
    /\ reported' = << IF prog = "combine_podcast" THEN "No MP3 files found in segments_dir"
                                                  ELSE "No WAV files found in input_dir" >>
    /\ UNCHANGED << prog, raisedBy, genVars, outputFile, dirFiles, combVars, nameVars, envVars,
                    partial, runVars, ttsVars,
                    cloneVars, variantCalls, conc >>

\* faulty variant of CombOpenList: the list file is opened for appending
CombOpenList_Appends ==
    /\ prog = "combine_podcast"
    /\ pc = "check"
    /\ segment_files # <<>>
    /\ listFile' = TRUE
    /\ file_list' = file_list
    /\ i' = 0
    /\ pc' = "write"
    /\ UNCHANGED << prog, raisedBy, api_key, script, add_intro, add_outro, podcast_audio,
                    tempFiles, synthCalls, synthFailed, exportCalls, written,
                    outputFile, result, dirFiles, segments_dir, pause_duration,
                    listing, segment_files, silenceFiles, concatCalls,
                    concatInput, concatStatus, nameVars, envVars,
                    reported, partial, runVars, ttsVars,
                    cloneVars, variantCalls, conc >>

\* combine_podcast.py: with open("temp_file_list.txt", 'w') as f
CombOpenList ==
    /\ prog = "combine_podcast"
    /\ pc = "check"
    /\ segment_files # <<>>
    /\ listFile' = TRUE
    /\ file_list' = <<>>
    /\ i' = 0
    /\ pc' = "write"
    /\ UNCHANGED << prog, raisedBy, api_key, script, add_intro, add_outro, podcast_audio,
                    tempFiles, synthCalls, synthFailed, exportCalls, written,
                    outputFile, result, dirFiles, segments_dir, pause_duration,
                    listing, segment_files, silenceFiles, concatCalls,
                    concatInput, concatStatus, nameVars, envVars,
                    reported, partial, runVars, ttsVars,
                    cloneVars, variantCalls, conc >>

\* one iteration of "for segment_file in segment_files": the segment line and,
\* unless segment_file == segment_files[-1], the silence command (whose exit
\* status is not looked at) and the silence line
CombWriteEntry ==
    /\ prog = "combine_podcast"
    /\ pc = "write"
    /\ i < Len(segment_files)
    /\ LET segment_file == segment_files[i + 1]
           n == Len(segment_files)
       IN IF segment_file # segment_files[Len(segment_files)]
          THEN /\ \E made \in BOOLEAN :
                     silenceFiles' = IF made THEN silenceFiles \cup {n} ELSE silenceFiles
               /\ file_list' = file_list \o
                     << SegmentEntry(segment_file), SilenceEntry(n, pause_duration) >>
          ELSE /\ silenceFiles' = silenceFiles
               /\ file_list' = Append(file_list, SegmentEntry(segment_file))
    /\ i' = i + 1
    /\ UNCHANGED << prog, raisedBy, pc, api_key, script, add_intro, add_outro,
                    podcast_audio, tempFiles, synthCalls, synthFailed,
                    exportCalls, written, outputFile, result, dirFiles,
                    segments_dir, pause_duration, listing, segment_files,
                    listFile, concatCalls, concatInput, concatStatus, nameVars, envVars,
                    reported, partial, runVars, ttsVars,
                    cloneVars, variantCalls, conc >>

\* f.write raised inside the with block (the path cannot be encoded, the disk
\* is full): "except Exception" returns False; nothing is removed
CombWriteRaise ==
    /\ prog = "combine_podcast"
    /\ pc = "write"
    /\ i < Len(segment_files)
    /\ result' = "False"
    /\ pc' = "done"
    /\ reported' = << "Error combining segments: ", "exception text" >>
    /\ UNCHANGED << prog, raisedBy, genVars, outputFile, dirFiles, combVars, nameVars, envVars,
                    partial, runVars, ttsVars,
                    cloneVars, variantCalls, conc >>

\* result = os.system(ffmpeg_cmd)
CombConcat ==
    /\ prog = "combine_podcast"
    /\ pc = "write"
    /\ i = Len(segment_files)
    /\ concatCalls' = concatCalls + 1
    /\ concatInput' = file_list
    /\ \E status \in {"zero", "nonzero"} :
          /\ concatStatus' = status
          /\ outputFile' \in (IF status = "zero" THEN {TRUE} ELSE {outputFile, TRUE})
    /\ dirFiles' = DirWithOutput(outputFile')
    /\ pc' = "cleanup"
    /\ UNCHANGED << prog, raisedBy, genVars, result, segments_dir,
                    pause_duration, listing, segment_files, file_list, listFile,
                    silenceFiles, nameVars, envVars,
                    reported, partial, runVars, ttsVars,
                    cloneVars, variantCalls, conc >>

\* os.remove(file_list_path); remove every temp_silence_*.mp3;
\* return result == 0, after printing the fixed success or error line (os.system
\* leaves the command's stderr on the terminal, the function never reads it)
CombCleanup ==
    /\ prog = "combine_podcast"
    /\ pc = "cleanup"
    /\ listFile' = FALSE
    /\ silenceFiles' = {}
    /\ result' = IF concatStatus = "zero" THEN "True" ELSE "False"
    /\ pc' = "done"
    /\ reported' = IF concatStatus = "zero" THEN reported
                    ELSE << "Error combining podcast segments" >>
    /\ UNCHANGED << prog, raisedBy, genVars, outputFile, dirFiles, segments_dir,
                    pause_duration, listing, segment_files, file_list,
                    concatCalls, concatInput, concatStatus, nameVars, envVars,
                    partial, runVars, ttsVars,
                    cloneVars, variantCalls, conc >>

\* combine_podcast_wav.py: the NamedTemporaryFile(delete=False) block, one line
\* per audio file
WavWriteList ==
    /\ prog = "combine_podcast_wav"
    /\ pc = "check"
    /\ segment_files # <<>>
    /\ listFile' = TRUE
    /\ file_list' = [k \in 1..Len(segment_files) |-> SegmentEntry(segment_files[k])]
    /\ pc' = "concat"
    /\ UNCHANGED << prog, raisedBy, genVars, outputFile, result, dirFiles, segments_dir,
                    pause_duration, listing, segment_files, silenceFiles,
                    concatCalls, concatInput, concatStatus, nameVars, envVars,
                    reported, partial, runVars, ttsVars,
                    cloneVars, variantCalls, conc >>

\* f.write raised inside the NamedTemporaryFile block, which is outside the
\* try/finally: the file stays, "except Exception" returns False
WavWriteRaise ==
    /\ prog = "combine_podcast_wav"
    /\ pc = "check"
    /\ segment_files # <<>>
    /\ listFile' = TRUE
    /\ result' = "False"
    /\ pc' = "done"
    /\ reported' = << "Error combining audio segments: ", "exception text" >>
    /\ UNCHANGED << prog, raisedBy, genVars, outputFile, dirFiles, segments_dir,
                    pause_duration, listing, segment_files, file_list,
                    silenceFiles, concatCalls, concatInput, concatStatus,
                    nameVars, envVars,
                    partial, runVars, ttsVars,
                    cloneVars, variantCalls, conc >>

\* result = subprocess.run(cmd, ...), or the call raising (no ffmpeg)
WavConcat ==
    /\ prog = "combine_podcast_wav"
    /\ pc = "concat"
    /\ concatCalls' = concatCalls + 1
    /\ concatInput' = file_list
    /\ \E status \in {"zero", "nonzero", "raised"} :
          /\ concatStatus' = status
          /\ outputFile' \in (IF status = "zero" THEN {TRUE}
                              ELSE IF status = "nonzero" THEN {outputFile, TRUE}
                              ELSE {outputFile})
    /\ dirFiles' = DirWithOutput(outputFile')
    /\ pc' = "finally"
    /\ UNCHANGED << prog, raisedBy, genVars, result, segments_dir,
                    pause_duration, listing, segment_files, file_list, listFile,
                    silenceFiles, nameVars, envVars,
                    reported, partial, runVars, ttsVars,
                    cloneVars, variantCalls, conc >>

\* finally: os.unlink(file_list_path); the value returned by the try body, or
\* False from "except Exception"; a non-zero exit prints result.stderr, which
\* subprocess.run captured
WavFinally ==
    /\ prog = "combine_podcast_wav"
    /\ pc = "finally"
    /\ listFile' = FALSE
    /\ result' = IF concatStatus = "zero" THEN "True" ELSE "False"
    /\ pc' = "done"
    /\ reported' = CASE concatStatus = "zero"    -> reported
                      [] concatStatus = "nonzero" -> << "Error running ffmpeg: ", diag >>
                      [] OTHER -> << "Error combining audio segments: ", "exception text" >>
    /\ UNCHANGED << prog, raisedBy, genVars, outputFile, dirFiles, segments_dir,
                    pause_duration, listing, segment_files, file_list,
                    silenceFiles, concatCalls, concatInput, concatStatus,
                    nameVars, envVars,
                    partial, runVars, ttsVars,
                    cloneVars, variantCalls, conc >>

\* the concat succeeded but float(duration_result.stdout.strip()) raised:
\* finally unlinks, "except Exception" returns False
WavProbeRaise ==
    /\ prog = "combine_podcast_wav"
    /\ pc = "finally"
    /\ concatStatus = "zero"
    /\ listFile' = FALSE
    /\ result' = "False"
    /\ pc' = "done"
    /\ reported' = << "Error combining audio segments: ", "exception text" >>
    /\ UNCHANGED << prog, raisedBy, genVars, outputFile, dirFiles, segments_dir,
                    pause_duration, listing, segment_files, file_list,
                    silenceFiles, concatCalls, concatInput, concatStatus,
                    nameVars, envVars,
                    partial, runVars, ttsVars,
                    cloneVars, variantCalls, conc >>


-----------------------------------------------------------------------------
(* The program: one run of one entry point *)

Init == InitCombined \/ InitSegment \/ InitCombiner

Next ==
    \/ LoadScript
    \/ LoadScriptRaise
    \/ EntryRaise
    \/ AddIntro
    \/ SkipUnknown
    \/ SynthOk
    \/ SynthFail
    \/ SynthRaise
    \/ DecodeOk
    \/ DecodeRaise
    \/ AddOutro
    \/ ExportOk
    \/ ExportRaise
    \/ CreateVoiceSamples
    \/ CreateVoiceSamplesRaise
    \/ SegSkipUnknown
    \/ SegSynthOk
    \/ SegSynthFail
    \/ SegFinish
    \/ CombGlob
    \/ CombEmpty
    \/ CombOpenList
    \/ CombWriteEntry
    \/ CombWriteRaise
    \/ CombConcat
    \/ CombCleanup
    \/ WavWriteList
    \/ WavWriteRaise
    \/ WavConcat
    \/ WavFinally
    \/ WavProbeRaise

Spec == Init /\ [][Next]_vars

-----------------------------------------------------------------------------
(* Two passes: a segment-mode run, then the combiner of the same format on   *)
(* the directory the segments were written to                                *)

\* python combine_podcast.py <output_dir> --pause P, after
\* generate_podcast_segments returned True
StartCombiner ==
    /\ prog \in SegmentProgs
    /\ pc = "done"
    /\ result = "True"
    /\ prog' = IF prog = "generate_podcast_simple" THEN "combine_podcast"
                                                   ELSE "combine_podcast_wav"
    /\ pc' = "glob"
    /\ result' = "running"
    /\ segments_dir' = Chars("seg")
    /\ pause_duration' \in (IF prog = "generate_podcast_simple" THEN {1, 2} ELSE {0})
    /\ diag' \in Diagnostics
    /\ output_file' = OutputName
    /\ UNCHANGED << raisedBy, genVars, outputFile, dirFiles, listing, segment_files,
                    file_list, listFile, silenceFiles, concatCalls, concatInput,
                    concatStatus, nameVars, scriptFile, caller_pause, dirAtStart,
                    reported, partial, runVars, ttsVars,
                    cloneVars, variantCalls, conc >>

NextPipeline ==
    \/ LoadScript
    \/ LoadScriptRaise
    \/ EntryRaise
    \/ CreateVoiceSamples
    \/ CreateVoiceSamplesRaise
    \/ SegSkipUnknown
    \/ SegSynthOk
    \/ SegSynthFail
    \/ SegFinish
    \/ StartCombiner
    \/ CombGlob
    \/ CombEmpty
    \/ CombOpenList
    \/ CombWriteEntry
    \/ CombWriteRaise
    \/ CombConcat
    \/ CombCleanup
    \/ WavWriteList
    \/ WavWriteRaise
    \/ WavConcat
    \/ WavFinally
    \/ WavProbeRaise

SpecPipeline == InitSegment /\ [][NextPipeline]_vars

\* The timeline generate_podcast assembles from the lines k.. of a script
\* without intro and outro when every synthesis call succeeds: the loop body of
\* SkipUnknown, SynthOk and DecodeOk
RECURSIVE RenderFrom(_, _)
RenderFrom(sc, k) ==
    IF k >= Len(sc) THEN <<>>
    ELSE IF sc[k + 1].speaker \notin KnownSpeakers THEN RenderFrom(sc, k + 1)
    ELSE <<Clip(k)>> \o (IF k < Len(sc) - 1 THEN <<Silence(PauseMs)>> ELSE <<>>)
            \o RenderFrom(sc, k + 1)

-----------------------------------------------------------------------------
(* Two successive runs of a combiner with the same arguments. The first run   *)
(* may find what a run that ended in the exception handler left: the list     *)
(* file and a silence file.                                                   *)

\* what an interrupted run left in temp_file_list.txt
StaleList == << SegmentEntry(JoinPath(Chars("seg"), SegmentName(0, "SAM", ".mp3"))) >>

InitTwice ==
    /\ prog \in CombinerProgs
    /\ pc = "glob"
    /\ GenIdle
    /\ outputFile = FALSE
    /\ result = "running"
    /\ raisedBy = "none"
    /\ dirFiles \in {S \in SUBSET DirUniverse : Cardinality(S) <= MaxDirFiles}
    /\ segments_dir = Chars("seg")
    /\ pause_duration \in (IF prog = "combine_podcast" THEN {1, 2} ELSE {0})
    /\ listing = <<>>
    /\ segment_files = <<>>
    /\ listFile \in (IF prog = "combine_podcast" THEN BOOLEAN ELSE {FALSE})
    /\ file_list = IF listFile THEN StaleList ELSE <<>>
    /\ silenceFiles \in (IF prog = "combine_podcast" THEN {{}, {2}} ELSE {{}})
    /\ concatCalls = 0
    /\ concatInput = <<>>
    /\ concatStatus = "none"
    /\ NameIdle
    /\ scriptFile = "ok"
    /\ caller_pause = PauseMs
    /\ diag = "Invalid data found when processing input"
    /\ output_file \in {OutputName, JoinPath(segments_dir, OutputName)}
    /\ dirAtStart = dirFiles
    /\ RunIdle
    /\ CloneIdle
    /\ variantCalls = <<>>
    /\ conc = ConcIdle
    /\ TtsIdle

\* the same command line is entered again after the first run has ended: the
\* files stay as the first run left them, the function starts afresh
RunAgain ==
    /\ prog \in CombinerProgs
    /\ pc = "done"
    /\ run = 1
    /\ run' = 2
    /\ firstInput' = [called |-> concatCalls > 0, list |-> concatInput, dir |-> dirFiles]
    /\ pc' = "glob"
    /\ result' = "running"
    /\ listing' = <<>>
    /\ segment_files' = <<>>
    /\ file_list' = IF listFile THEN file_list ELSE <<>>
    /\ concatCalls' = 0
    /\ concatInput' = <<>>
    /\ concatStatus' = "none"
    /\ reported' = <<>>
    /\ i' = 0
    /\ UNCHANGED << prog, raisedBy, api_key, script, add_intro, add_outro, podcast_audio,
                    tempFiles, synthCalls, synthFailed, exportCalls, written,
                    outputFile, dirFiles, segments_dir, pause_duration, listFile,
                    silenceFiles, nameVars, envVars, partial, ttsVars,
                    cloneVars, variantCalls, conc >>

NextTwice ==
    \/ CombGlob
    \/ CombEmpty
    \/ CombOpenList
    \/ CombWriteEntry
    \/ CombWriteRaise
    \/ CombConcat
    \/ CombCleanup
    \/ WavWriteList
    \/ WavWriteRaise
    \/ WavConcat
    \/ WavFinally
    \/ WavProbeRaise
    \/ RunAgain

SpecTwice == InitTwice /\ [][NextTwice]_vars

-----------------------------------------------------------------------------
(* Segment file naming as a function of the line index: the inputs are drawn *)
(* from NameIndexes, the action formats both names                           *)

RECURSIVE Pow10(_)
Pow10(k) == IF k = 0 THEN 1 ELSE 10 * Pow10(k - 1)

\* 0-based line indices: the first lines of a script and those around the
\* line whose number no longer fits PadWidth digits
NameIndexes == (0..SmallIndex) \cup ((Pow10(PadWidth) - 3)..(Pow10(PadWidth) + 1))

InitNaming ==
    /\ prog \in SegmentProgs
    /\ pc = "format"
    /\ GenIdle
    /\ outputFile = FALSE
    /\ result = "running"
    /\ raisedBy = "none"
    /\ dirFiles = {}
    /\ CombIdle
    /\ lineA \in [index : NameIndexes, speaker : KnownSpeakers]
    /\ lineB \in [index : NameIndexes, speaker : KnownSpeakers]
    /\ lineA.index < lineB.index
    /\ nameA = <<>>
    /\ nameB = <<>>
    /\ scriptFile = "ok"
    /\ caller_pause = PauseMs
    /\ diag = ""
    /\ output_file = <<>>
    /\ dirAtStart = dirFiles
    /\ RunIdle
    /\ CloneIdle
    /\ variantCalls = <<>>
    /\ conc = ConcIdle
    /\ TtsIdle

\* the output_path file names generate_podcast_segments gives two lines
FormatNames ==
    /\ pc = "format"
    /\ nameA' = SegmentName(lineA.index, lineA.speaker, SegmentExt(prog))
    /\ nameB' = SegmentName(lineB.index, lineB.speaker, SegmentExt(prog))
    /\ pc' = "formatted"
    /\ UNCHANGED << prog, raisedBy, genVars, outputFile, result, dirFiles, combVars,
                    lineA, lineB, envVars, reported, partial, runVars, ttsVars,
                    cloneVars, variantCalls, conc >>

NextNaming == FormatNames

SpecNaming == InitNaming /\ [][NextNaming]_vars

-----------------------------------------------------------------------------
(* text_to_speech called on its own: the placeholder and remote variants of   *)
(* generate_podcast.py, and CoquiPodcastGenerator.text_to_speech              *)

\* texts over a letter (97) and a blank (32)
Texts == SeqsUpTo({97, 32}, MaxTextLen)

\* len(text.split()): the number of maximal runs of non-blank characters
WordCount(text) ==
    Cardinality({k \in 1..Len(text) : text[k] # 32 /\ (k = 1 \/ text[k - 1] = 32)})

\* Natural numbers too wide for a machine integer are sequences of bits, least
\* significant first.
RECURSIVE BitsOf(_)
BitsOf(n) == IF n = 0 THEN <<>> ELSE <<n % 2>> \o BitsOf(n \div 2)

RECURSIVE ValueOf(_)
ValueOf(bits) == IF bits = <<>> THEN 0 ELSE Head(bits) + 2 * ValueOf(Tail(bits))

\* bits * n + carry, for a small n
RECURSIVE MulSmall(_, _, _)
MulSmall(bits, n, carry) ==
    IF bits = <<>> THEN BitsOf(carry)
    ELSE LET t == Head(bits) * n + carry
         IN <<t % 2>> \o MulSmall(Tail(bits), n, t \div 2)

\* without the zeros above the highest one
RECURSIVE Trim(_)
Trim(bits) ==
    IF bits = <<>> \/ bits[Len(bits)] = 1 THEN bits
    ELSE Trim(SubSeq(bits, 1, Len(bits) - 1))

\* bits + 1
RECURSIVE Inc(_)
Inc(bits) ==
    IF bits = <<>> THEN <<1>>
    ELSE IF Head(bits) = 0 THEN <<1>> \o Tail(bits)
    ELSE <<0>> \o Inc(Tail(bits))

\* A float is m * 2^e. The exact product m * 2^e rounded to SignificandBits
\* significant bits, ties to even (the rounding of every float operation).
RoundFloat(m, e) ==
    LET bits == Trim(m)
        drop == Len(bits) - SignificandBits
    IN IF drop <= 0 THEN [m |-> bits, e |-> e]
       ELSE LET kept   == SubSeq(bits, drop + 1, Len(bits))
                half   == bits[drop] = 1
                sticky == \E k \in 1..(drop - 1) : bits[k] = 1
                up     == half /\ (sticky \/ kept[1] = 1)
            IN [m |-> IF up THEN Inc(kept) ELSE kept, e |-> e + drop]

\* the literal 0.3: 0x13333333333333 * 2^-54
RECURSIVE Repeat(_, _)
Repeat(bits, k) == IF k = 0 THEN <<>> ELSE bits \o Repeat(bits, k - 1)

PointThree == [m |-> Repeat(<<1, 1, 0, 0>>, 13) \o <<1>>, e |-> -54]

\* n * x for an int n and a float x
FloatTimesInt(x, n) == RoundFloat(MulSmall(x.m, n, 0), x.e)

\* int(x) for a float x >= 0: the fraction is cut off
IntOf(x) ==
    IF x.e >= 0 THEN ValueOf(Repeat(<<0>>, x.e) \o x.m)
    ELSE IF -x.e >= Len(x.m) THEN 0
    ELSE ValueOf(SubSeq(x.m, 1 - x.e, Len(x.m)))

\* faulty variant of PlaceholderSamples: 0.3 s per character
PlaceholderSamples_PerCharacter(text) ==
    IntOf(FloatTimesInt(FloatTimesInt(PointThree, Len(text)), SampleRate))

\* duration = len(text.split()) * 0.3; int(sample_rate * duration)
PlaceholderSamples(text) ==
    LET duration == FloatTimesInt(PointThree, WordCount(text))
    IN IntOf(FloatTimesInt(duration, SampleRate))

\* what CoquiPodcastGenerator.text_to_speech prints and returns: the branch
\* taken shows in neither
CoquiResult(in, ok) ==
    LET cloned == in.use_voice_cloning /\ in.voice_file_exists
        output_path == SegmentName(in.index, in.speaker, ".wav")
    IN [ returned  |-> IF ok THEN "True" ELSE "False",
         speaker_wav |-> cloned,
         file      |-> ok,
         log       |-> << [msg |-> "Generating speech for", arg |-> Chars(voices[in.speaker].name)],
                          IF ok THEN [msg |-> "Saved to:", arg |-> output_path]
                                ELSE [msg |-> "Error generating speech:", arg |-> <<>>] >> ]

InitTextToSpeech ==
    /\ prog \in {"generate_podcast", "generate_podcast_coqui"}
    /\ pc = "call"
    /\ GenIdle
    /\ outputFile = FALSE
    /\ result = "running"
    /\ raisedBy = "none"
    /\ dirFiles = {}
    /\ CombIdle
    /\ NameIdle
    /\ scriptFile = "ok"
    /\ caller_pause = PauseMs
    /\ diag = ""
    /\ output_file = <<>>
    /\ dirAtStart = dirFiles
    /\ RunIdle
    /\ CloneIdle
    /\ variantCalls = <<>>
    /\ conc = ConcIdle
    /\ ttsIn \in (IF prog = "generate_podcast"
                  THEN [api_key : BOOLEAN, text : Texts]
                  ELSE [use_voice_cloning : BOOLEAN, voice_file_exists : BOOLEAN,
                        speaker : KnownSpeakers, index : 0..(MaxLines - 1)])
    /\ ttsOut = [returned |-> "none"]

\* if not self.api_key: return self._generate_placeholder_audio(text, output_path)
GeneratePlaceholderAudio ==
    /\ prog = "generate_podcast"
    /\ pc = "call"
    /\ ~ttsIn.api_key
    /\ ttsOut' = [ returned |-> "True", variant |-> "placeholder", file |-> TRUE,
                   framerate |-> SampleRate, frames |-> PlaceholderSamples(ttsIn.text) ]
    /\ pc' = "returned"
    /\ UNCHANGED << prog, raisedBy, genVars, outputFile, result, dirFiles, combVars,
                    nameVars, envVars, reported, partial, runVars, ttsIn,
                    cloneVars, variantCalls, conc >>

\* wave.open(output_path, 'w') or the numpy import raised: nothing in
\* _generate_placeholder_audio or text_to_speech catches it
GeneratePlaceholderRaise ==
    /\ prog = "generate_podcast"
    /\ pc = "call"
    /\ ~ttsIn.api_key
    /\ ttsOut' = [ returned |-> "raised", variant |-> "placeholder", file |-> FALSE,
                   framerate |-> SampleRate, frames |-> 0 ]
    /\ pc' = "returned"
    /\ UNCHANGED << prog, raisedBy, genVars, outputFile, result, dirFiles, combVars,
                    nameVars, envVars, reported, partial, runVars, ttsIn,
                    cloneVars, variantCalls, conc >>

\* with an API key: requests.post, raise_for_status, write response.content and
\* return True; RequestException: return False before the file is opened
RemoteTextToSpeech ==
    /\ prog = "generate_podcast"
    /\ pc = "call"
    /\ ttsIn.api_key
    /\ \E ok \in BOOLEAN :
          ttsOut' = [ returned |-> IF ok THEN "True" ELSE "False", variant |-> "remote",
                      file |-> ok, framerate |-> 0, frames |-> 0 ]
    /\ pc' = "returned"
    /\ UNCHANGED << prog, raisedBy, genVars, outputFile, result, dirFiles, combVars,
                    nameVars, envVars, reported, partial, runVars, ttsIn,
                    cloneVars, variantCalls, conc >>

\* CoquiPodcastGenerator.text_to_speech: tts_to_file with speaker_wav when
\* cloning is on and the sample exists, without it otherwise; any exception
\* returns False
CoquiTextToSpeech ==
    /\ prog = "generate_podcast_coqui"
    /\ pc = "call"
    /\ \E ok \in BOOLEAN : ttsOut' = CoquiResult(ttsIn, ok)
    /\ pc' = "returned"
    /\ UNCHANGED << prog, raisedBy, genVars, outputFile, result, dirFiles, combVars,
                    nameVars, envVars, reported, partial, runVars, ttsIn,
                    cloneVars, variantCalls, conc >>

NextTextToSpeech ==
    \/ GeneratePlaceholderAudio
    \/ GeneratePlaceholderRaise
    \/ RemoteTextToSpeech
    \/ CoquiTextToSpeech

SpecTextToSpeech == InitTextToSpeech /\ [][NextTextToSpeech]_vars

-----------------------------------------------------------------------------
(* Two runs of combine_podcast_segments in one working directory. The runs   *)
(* are the processes 1 and 2; conc holds the working directory and each      *)
(* run's locals. A file is known by the run that created it: names maps a    *)
(* list path to the file it names (0: no such file), data maps a file to its *)
(* lines, silence maps N to the run that last made temp_silence_<N>.mp3.     *)

Procs == {1, 2}

\* the most segment files a run finds
MaxFound == 2

\* faulty variant of FileListPath: a list path of the run's own
FileListPath_PerRun(p) ==
    IF p = 1 THEN "temp_file_list_1.txt" ELSE "temp_file_list_2.txt"

\* file_list_path = "temp_file_list.txt", relative to the working directory
FileListPath(p) == "temp_file_list.txt"

ListNames == { FileListPath(p) : p \in Procs }

\* the line of run p's k-th segment, and the line of temp_silence_<n>.mp3
ConcSegment(p, k) == [kind |-> "segment", by |-> p, k |-> k]
ConcSilence(p, n) == [kind |-> "silence", by |-> p, n |-> n]

\* a buffered text file flushed at close: the buffer goes to the start of the
\* file, what the file held beyond it stays
Overlay(old, buf) == buf \o SubSeq(old, Len(buf) + 1, Len(old))

\* everything but conc
soloVars == << prog, pc, raisedBy, genVars, outputFile, result, dirFiles,
               combVars, nameVars, envVars, reported, partial, runVars,
               ttsVars, cloneVars, variantCalls >>

InitConcurrent ==
    /\ prog = "combine_podcast"
    /\ pc = "concurrent"
    /\ GenIdle
    /\ outputFile = FALSE
    /\ result = "running"
    /\ raisedBy = "none"
    /\ dirFiles = {}
    /\ CombIdle
    /\ NameIdle
    /\ scriptFile = "ok"
    /\ caller_pause = PauseMs
    /\ diag = ""
    /\ output_file = <<>>
    /\ dirAtStart = dirFiles
    /\ RunIdle
    /\ CloneIdle
    /\ variantCalls = <<>>
    /\ TtsIdle
    /\ conc = [ active  |-> TRUE,
                names   |-> [nm \in ListNames |-> 0],
                data    |-> [q \in Procs |-> <<>>],
                silence |-> [n \in 1..MaxFound |-> 0],
                overlap |-> FALSE,
                run     |-> [q \in Procs |->
                              [ pc |-> "idle", n |-> 0, i |-> 0, handle |-> 0,
                                buf |-> <<>>, made |-> FALSE, globbed |-> {},
                                found |-> FALSE, gone |-> {},
                                read |-> <<>>, status |-> "none",
                                result |-> "running", raised |-> FALSE ] ] ]

Running(q) == conc.run[q].pc \notin {"idle", "done"}

\* segment_files = sorted(glob(...)); "if not segment_files: return False"
ConcGlob(p) ==
    /\ conc.active
    /\ conc.run[p].pc = "idle"
    /\ \E n \in 0..MaxFound :
          conc' = [conc EXCEPT
                     !.run[p].n = n,
                     !.run[p].pc = IF n = 0 THEN "done" ELSE "open",
                     !.run[p].result = IF n = 0 THEN "False" ELSE @,
                     !.overlap = @ \/ (n > 0 /\ \E q \in Procs \ {p} : Running(q))]
    /\ UNCHANGED soloVars

\* open(file_list_path, 'w'): creates the file, or truncates the one of that name
ConcOpenList(p) ==
    /\ conc.active
    /\ conc.run[p].pc = "open"
    /\ LET nm == FileListPath(p)
           f  == IF conc.names[nm] = 0 THEN p ELSE conc.names[nm]
       IN conc' = [conc EXCEPT
                     !.names[nm] = f,
                     !.data[f] = <<>>,
                     !.run[p].handle = f,
                     !.run[p].pc = "write"]
    /\ UNCHANGED soloVars

\* one iteration of the loop: the segment line goes to the buffer; unless the
\* segment is the last one, the silence command runs (status not looked at)
\* and the silence line goes to the buffer
ConcWriteEntry(p) ==
    /\ conc.active
    /\ conc.run[p].pc = "write"
    /\ conc.run[p].i < conc.run[p].n
    /\ LET r == conc.run[p]
       IN IF r.i + 1 < r.n
          THEN \E made \in BOOLEAN :
                  conc' = [conc EXCEPT
                             !.silence[r.n] = IF made THEN p ELSE @,
                             !.run[p].made = @ \/ made,
                             !.run[p].buf = @ \o << ConcSegment(p, r.i + 1),
                                                    ConcSilence(p, r.n) >>,
                             !.run[p].i = @ + 1]
          ELSE conc' = [conc EXCEPT
                          !.run[p].buf = Append(@, ConcSegment(p, r.i + 1)),
                          !.run[p].i = @ + 1]
    /\ UNCHANGED soloVars

\* the end of the with block: the buffer is written to the file the run opened,
\* whatever name that file has by now
ConcCloseList(p) ==
    /\ conc.active
    /\ conc.run[p].pc = "write"
    /\ conc.run[p].i = conc.run[p].n
    /\ LET r == conc.run[p]
       IN conc' = [conc EXCEPT
                     !.data[r.handle] = Overlay(@, r.buf),
                     !.run[p].pc = "concat"]
    /\ UNCHANGED soloVars

\* the lines of a list whose files the concatenation finds
ListReadable(list) ==
    /\ list # <<>>
    /\ \A k \in 1..Len(list) :
          list[k].kind = "silence" => conc.silence[list[k].n] # 0

\* result = os.system(ffmpeg_cmd): ffmpeg opens the list by its name
ConcConcat(p) ==
    /\ conc.active
    /\ conc.run[p].pc = "concat"
    /\ LET nm    == FileListPath(p)
           found == conc.names[nm] # 0
           list  == IF found THEN conc.data[conc.names[nm]] ELSE <<>>
       IN \E status \in (IF found /\ ListReadable(list)
                         THEN {"zero", "nonzero"} ELSE {"nonzero"}) :
             conc' = [conc EXCEPT
                        !.run[p].found = found,
                        !.run[p].read = list,
                        !.run[p].gone = { n \in 1..MaxFound :
                                            /\ conc.silence[n] = 0
                                            /\ \E k \in 1..Len(list) :
                                                  /\ list[k].kind = "silence"
                                                  /\ list[k].n = n },
                        !.run[p].status = status,
                        !.run[p].pc = "remove_list"]
    /\ UNCHANGED soloVars

\* os.remove(file_list_path); FileNotFoundError is caught by "except
\* Exception", which returns False
ConcRemoveList(p) ==
    /\ conc.active
    /\ conc.run[p].pc = "remove_list"
    /\ LET nm == FileListPath(p)
       IN IF conc.names[nm] = 0
          THEN conc' = [conc EXCEPT
                          !.run[p].raised = TRUE,
                          !.run[p].result = "False",
                          !.run[p].pc = "done"]
          ELSE conc' = [conc EXCEPT
                          !.names[nm] = 0,
                          !.run[p].pc = "glob"]
    /\ UNCHANGED soloVars

\* glob.glob("temp_silence_*.mp3")
ConcGlobSilence(p) ==
    /\ conc.active
    /\ conc.run[p].pc = "glob"
    /\ conc' = [conc EXCEPT
                  !.run[p].globbed = { n \in 1..MaxFound : conc.silence[n] # 0 },
                  !.run[p].pc = "remove_silence"]
    /\ UNCHANGED soloVars

\* os.remove(silence_file) for one of the globbed names
ConcRemoveSilence(p) ==
    /\ conc.active
    /\ conc.run[p].pc = "remove_silence"
    /\ \E n \in conc.run[p].globbed :
          IF conc.silence[n] = 0
          THEN conc' = [conc EXCEPT
                          !.run[p].raised = TRUE,
                          !.run[p].result = "False",
                          !.run[p].pc = "done"]
          ELSE conc' = [conc EXCEPT
                          !.silence[n] = 0,
                          !.run[p].globbed = @ \ {n}]
    /\ UNCHANGED soloVars

\* return result == 0
ConcReturn(p) ==
    /\ conc.active
    /\ conc.run[p].pc = "remove_silence"
    /\ conc.run[p].globbed = {}
    /\ conc' = [conc EXCEPT
                  !.run[p].result = IF conc.run[p].status = "zero"
                                    THEN "True" ELSE "False",
                  !.run[p].pc = "done"]
    /\ UNCHANGED soloVars

NextConcurrent ==
    \/ \E p \in Procs : ConcGlob(p)
    \/ \E p \in Procs : ConcOpenList(p)
    \/ \E p \in Procs : ConcWriteEntry(p)
    \/ \E p \in Procs : ConcCloseList(p)
    \/ \E p \in Procs : ConcConcat(p)
    \/ \E p \in Procs : ConcRemoveList(p)
    \/ \E p \in Procs : ConcGlobSilence(p)
    \/ \E p \in Procs : ConcRemoveSilence(p)
    \/ \E p \in Procs : ConcReturn(p)

SpecConcurrent == InitConcurrent /\ [][NextConcurrent]_vars

-----------------------------------------------------------------------------
(* Vocabulary of the properties *)

\* 0-based indices of the lines whose speaker is in the voice registry, in
\* script order
KnownSeq ==
    SelectSeq([k \in 1..Len(script) |-> k - 1],
              LAMBDA k : HasFields(script[k + 1])
                            /\ script[k + 1].speaker \in KnownSpeakers)

IsPrefix(a, b) == Len(a) <= Len(b) /\ SubSeq(b, 1, Len(a)) = a

IsClip(e)    == e.kind = "clip"
IsSilence(e) == e.kind = "silence"
IsPause(e)   == e.kind = "silence" /\ e.ms = PauseMs
IsIntro(e)   == e.kind = "silence" /\ e.ms = IntroMs
IsOutro(e)   == e.kind = "silence" /\ e.ms = OutroMs

Count(seq, P(_)) == Len(SelectSeq(seq, P))

\* the timeline is complete: it is about to be, or has been, handed to export
Assembled == prog \in CombinedProgs /\ (pc = "export" \/ exportCalls > 0)

GeneratorProgs == CombinedProgs \cup SegmentProgs

\* the names in the directory that the combiner's glob matches
Matching == {n \in dirFiles : GlobMatches(n, CombExt(prog))}

\* the combiner is past its glob
Globbed == prog \in CombinerProgs /\ pc # "glob"

-----------------------------------------------------------------------------
(* Properties *)

\* C1 (as claimed): when every synthesis call succeeded, the assembled timeline
\* holds one clip per known-speaker line (K clips), K-1 pause silences (0 when
\* K <= 1), one intro silence iff add_intro and one outro silence iff add_outro.
C1_TimelineCounts ==
    Assembled =>
        /\ Count(podcast_audio, IsClip) = Len(KnownSeq)
        /\ Count(podcast_audio, IsPause) =
              (IF Len(KnownSeq) <= 1 THEN 0 ELSE Len(KnownSeq) - 1)
        /\ Count(podcast_audio, IsIntro) = (IF add_intro THEN 1 ELSE 0)
        /\ Count(podcast_audio, IsOutro) = (IF add_outro THEN 1 ELSE 0)

\* C2 (as claimed): in the assembled timeline the first item is a silence when
\* add_intro, the last item is a silence when add_outro, two clips adjacent in
\* script order are separated by exactly one silence, and no two silences are
\* adjacent.
C2_TimelineShape ==
    Assembled =>
        /\ add_intro => (podcast_audio # <<>> /\ IsSilence(podcast_audio[1]))
        /\ add_outro => (podcast_audio # <<>> /\ IsSilence(podcast_audio[Len(podcast_audio)]))
        /\ \A k \in 1..(Len(podcast_audio) - 1) :
              /\ ~(IsSilence(podcast_audio[k]) /\ IsSilence(podcast_audio[k + 1]))
              /\ ~(IsClip(podcast_audio[k]) /\ IsClip(podcast_audio[k + 1]))

\* C3: in every generator a line with an unknown speaker is never synthesized
\* and never ends the run: the synthesis calls are the known-speaker lines in
\* script order, a run returns False only on a failed synthesis call, a run
\* that ends with no failed synthesis call and no exception returns True, and
\* a successful run has synthesized every known-speaker line and holds exactly
\* that many clips (combined mode) or segments (segment mode).
C3_UnknownSpeakerSkipped ==
    prog \in GeneratorProgs =>
        /\ IsPrefix(synthCalls, KnownSeq)
        /\ result = "False" => synthFailed # {}
        /\ (pc = "done" /\ synthFailed = {} /\ raisedBy = "none") => result = "True"
        /\ result = "True" =>
              /\ synthCalls = KnownSeq
              /\ prog \in CombinedProgs => Count(podcast_audio, IsClip) = Len(KnownSeq)
              /\ prog \in SegmentProgs => Len(written) = Len(KnownSeq)

\* C3 witness: a finished successful run over 3 lines, 1 unknown and 2 known,
\* the unknown one not last, with exactly 2 clips or segments
C3_Witness ==
    /\ prog \in GeneratorProgs
    /\ result = "True"
    /\ Len(script) = 3
    /\ Len(KnownSeq) = 2
    /\ HasFields(script[3])
    /\ script[3].speaker \in KnownSpeakers
    /\ Count(podcast_audio, IsClip) + Len(written) = 2

\* C4: combined mode, once a synthesis call has returned failure the run is
\* over with result False, the failing call is the last synthesis call, export
\* was never invoked and no output was written; export is invoked only after
\* every known-speaker line was synthesized successfully.
C4_SynthFailureAborts ==
    prog \in CombinedProgs =>
        /\ synthFailed # {} =>
              /\ pc = "done"
              /\ result = "False"
              /\ synthCalls[Len(synthCalls)] \in synthFailed
              /\ Cardinality(synthFailed) = 1
              /\ exportCalls = 0
              /\ ~outputFile
        /\ exportCalls > 0 => (synthCalls = KnownSeq /\ synthFailed = {})

\* C4 witness: a synthesis failure on a line that is followed by another
\* known-speaker line, after an earlier line was synthesized
C4_Witness ==
    /\ prog \in CombinedProgs
    /\ synthFailed # {}
    /\ Len(synthCalls) = 2
    /\ Len(KnownSeq) = 3

\* C5 (as claimed): when generate_podcast has ended, by returning True, by
\* returning False after a failed synthesis call, or by an exception of the
\* decoding or of the export, no per-line temporary file of the run exists.
C5_TempFilesRemoved ==
    (prog \in CombinedProgs /\ pc = "done" /\ raisedBy # "text_to_speech")
        => tempFiles = {}

\* C6 (as claimed): both combiners hand the media toolkit the N segments with
\* exactly one silence of the pause duration between adjacent segments and
\* none before the first or after the last.
C6_SilenceBetweenSegments ==
    (prog \in CombinerProgs /\ concatCalls > 0) =>
        /\ Len(concatInput) = 2 * Len(segment_files) - 1
        /\ \A k \in 1..Len(concatInput) :
              IF k % 2 = 1
              THEN concatInput[k] = SegmentEntry(segment_files[(k + 1) \div 2])
              ELSE /\ concatInput[k].kind = "silence"
                   /\ concatInput[k].seconds = pause_duration

\* C7: the segments handed to the media toolkit are the matching files of the
\* directory, each exactly once, in ascending lexicographic order of their file
\* names, whatever order the listing returned them in.
C7_SortedByFileName ==
    Globbed =>
        /\ Len(segment_files) = Cardinality(Matching)
        /\ {Basename(segment_files[k]) : k \in 1..Len(segment_files)} = Matching
        /\ \A a, b \in 1..Len(segment_files) :
              a < b => StrLess(Basename(segment_files[a]), Basename(segment_files[b]))
        /\ concatCalls > 0 =>
              SelectSeq(concatInput, LAMBDA e : e.kind = "segment")
                 = [k \in 1..Len(segment_files) |-> SegmentEntry(segment_files[k])]

\* C7 witness: the concat command ran on three segments that the listing had
\* returned in another order than the sorted one
C7_Witness ==
    /\ prog \in CombinerProgs
    /\ concatCalls > 0
    /\ Len(segment_files) = 3
    /\ listing # segment_files

\* C8 (as claimed): the segment of the line at index i is named with the prefix
\* i+1 zero-padded to PadWidth digits, and for every two lines i < j the name
\* of line i sorts before the name of line j, so that the combiner's sort
\* yields playback order.
C8_NamesSortInPlaybackOrder ==
    pc = "formatted" =>
        /\ IsPrefix(Format03d(lineA.index + 1) \o Chars("_"), nameA)
        /\ IsPrefix(Format03d(lineB.index + 1) \o Chars("_"), nameB)
        /\ StrLess(nameA, nameB)
        /\ Sorted(<<nameB, nameA>>) = <<nameA, nameB>>

\* C9: a combiner run on a directory with no matching audio file never invokes
\* the media toolkit, never creates the output file, the list file or a silence
\* file, and ends with result False.
C9_EmptyInputFails ==
    (prog \in CombinerProgs /\ Matching = {}) =>
        /\ concatCalls = 0
        /\ ~outputFile
        /\ ~listFile
        /\ silenceFiles = {}
        /\ pc \in {"glob", "check", "done"}
        /\ pc = "done" => result = "False"

\* C9 witness: a finished run on a directory that holds files, none matching
C9_Witness ==
    /\ prog \in CombinerProgs
    /\ Matching = {}
    /\ dirFiles # {}
    /\ pc = "done"
    /\ result = "False"

\* C10 (as claimed): when a combiner has returned, on its normal path or
\* through its exception handler, neither its list file nor a silence file
\* exists.
C10_CombinerTempsRemoved ==
    (prog \in CombinerProgs /\ pc = "done") => (~listFile /\ silenceFiles = {})

\* C11 (as claimed): when the concat command exits non-zero, the combiner, MP3
\* or WAV, returns False and the error message it prints contains the
\* command's own diagnostic text unchanged.
C11_DiagnosticReported ==
    (prog \in CombinerProgs /\ pc = "done" /\ concatStatus = "nonzero") =>
        /\ result = "False"
        /\ \E k \in 1..Len(reported) : reported[k] = diag

\* C12 (as claimed): in every generator a script that is missing, is not valid
\* JSON, or has an entry without speaker or line ends the run with an error
\* before the first synthesis call: a run ended by such an error has synthesized
\* no line and has written no clip or segment file.
C12_ValidationBeforeSynthesis ==
    (prog \in GeneratorProgs /\ raisedBy \in {"load_script", "entry"}) =>
        /\ synthCalls = <<>>
        /\ tempFiles = {}
        /\ written = <<>>
        /\ dirFiles = dirAtStart

\* C13: segment mode, once the synthesis call for a line has returned failure
\* the run is over with result False and that call is the last synthesis call;
\* every segment written for an earlier line still exists under the name it was
\* given, was written once, and is not the file the failing call wrote to.
C13_EarlierSegmentsKept ==
    (prog \in SegmentProgs /\ synthFailed # {}) =>
        /\ pc = "done"
        /\ result = "False"
        /\ Cardinality(synthFailed) = 1
        /\ synthCalls[Len(synthCalls)] \in synthFailed
        /\ Len(written) = Len(synthCalls) - 1
        /\ \A k \in 1..Len(written) :
              /\ written[k] \in dirFiles
              /\ written[k] = SegmentName(synthCalls[k], script[synthCalls[k] + 1].speaker,
                                          SegmentExt(prog))
              /\ written[k] # SegmentName(i, Entry.speaker, SegmentExt(prog))
              /\ \A j \in 1..Len(written) : j # k => written[j] # written[k]

\* C13 witness: the third synthesis call of a run failed and left a file
\* behind, after two segments were written
C13_Witness ==
    /\ prog \in SegmentProgs
    /\ synthFailed # {}
    /\ Len(written) = 2
    /\ partial # {}

\* C14 (as claimed): remote synthesis (generate_podcast.py with an API key, and
\* the gTTS-backed text_to_speech): a call that returned failure has left
\* nothing at its destination path, and a call that returned success has
\* written the complete audio there.
C14_NoPartialDestination ==
    (prog \in CombinedProgs /\ (prog = "generate_podcast" => api_key)) =>
        /\ \A k \in synthFailed :
              /\ <<script[k + 1].speaker, k>> \notin tempFiles
              /\ k \notin partial
        /\ pc = "decode" =>
              /\ <<Entry.speaker, i>> \in tempFiles
              /\ i \notin partial

\* C15 (as claimed): CoquiPodcastGenerator.text_to_speech with voice cloning
\* enabled and the reference sample missing synthesizes with the default voice,
\* and when it succeeds the caller can tell the fallback from a cloned
\* synthesis: the return value or the messages differ from those of a call
\* that used the sample.
C15_FallbackObservable ==
    (prog = "generate_podcast_coqui" /\ pc = "returned"
        /\ ttsIn.use_voice_cloning /\ ~ttsIn.voice_file_exists) =>
        /\ ~ttsOut.speaker_wav
        /\ ttsOut.returned = "True" =>
              \A ok \in BOOLEAN :
                 LET cloned == CoquiResult([ttsIn EXCEPT !.voice_file_exists = TRUE], ok)
                 IN << ttsOut.returned, ttsOut.log >> # << cloned.returned, cloned.log >>

\* C16 (as claimed): without an API key text_to_speech is the placeholder, which
\* never returns False and for a text of W words writes one file of exactly
\* 0.3 * SampleRate * W frames at SampleRate (W x 300 ms), W = 0 included; with
\* an API key it is the remote variant.
C16_PlaceholderDuration ==
    (prog = "generate_podcast" /\ pc = "returned") =>
        /\ ttsOut.variant = "placeholder" <=> ~ttsIn.api_key
        /\ ~ttsIn.api_key =>
              /\ ttsOut.returned # "False"
              /\ ttsOut.returned = "True" =>
                    /\ ttsOut.file
                    /\ ttsOut.framerate = SampleRate
                    /\ ttsOut.frames = (3 * SampleRate * WordCount(ttsIn.text)) \div 10

\* C16 (amended): as C16, with the frame count int(SampleRate * (W * 0.3)) of
\* float arithmetic, which is 0.3 * SampleRate * W or one frame less (0 frames
\* for W = 0): the duration is W x 300 ms less at most one frame.
C16_PlaceholderWithinOneFrame ==
    (prog = "generate_podcast" /\ pc = "returned") =>
        /\ ttsOut.variant = "placeholder" <=> ~ttsIn.api_key
        /\ ~ttsIn.api_key =>
              /\ ttsOut.returned # "False"
              /\ ttsOut.returned = "True" =>
                    /\ ttsOut.file
                    /\ ttsOut.framerate = SampleRate
                    /\ LET exact == (3 * SampleRate * WordCount(ttsIn.text)) \div 10
                       IN /\ ttsOut.frames \in {exact - 1, exact}
                          /\ ttsOut.frames >= 0
                          /\ WordCount(ttsIn.text) = 0 => ttsOut.frames = 0

\* C16 witness: the placeholder returned True for a text of 3 words separated
\* by blanks and wrote one frame less than 0.3 * SampleRate * 3
C16_Witness ==
    /\ prog = "generate_podcast"
    /\ pc = "returned"
    /\ ~ttsIn.api_key
    /\ ttsOut.returned = "True"
    /\ WordCount(ttsIn.text) = 3
    /\ ttsOut.frames = (3 * SampleRate * 3) \div 10 - 1

\* total duration (ms) of the silences of a timeline
RECURSIVE SilenceMs(_)
SilenceMs(seq) ==
    IF seq = <<>> THEN 0
    ELSE (IF Head(seq).kind = "silence" THEN Head(seq).ms ELSE 0) + SilenceMs(Tail(seq))

\* C17 (as claimed): in the assembled timeline every silence between two clips
\* has the pause duration the caller asked for, so the timeline lasts the clips
\* plus (clips - 1) pauses of that duration plus the intro and outro asked for.
C17_ConfiguredPause ==
    Assembled =>
        /\ \A k \in 2..(Len(podcast_audio) - 1) :
              (IsClip(podcast_audio[k - 1]) /\ IsSilence(podcast_audio[k])
                  /\ IsClip(podcast_audio[k + 1]))
                 => podcast_audio[k].ms = caller_pause
        /\ SilenceMs(podcast_audio) =
              (IF Count(podcast_audio, IsClip) = 0 THEN 0
               ELSE (Count(podcast_audio, IsClip) - 1) * caller_pause)
                 + (IF add_intro THEN IntroMs ELSE 0)
                 + (IF add_outro THEN OutroMs ELSE 0)

\* the script line a segment file of the directory was written for by the
\* segment-mode pass, -1 for a file that pass did not write
LineOf(name) ==
    IF \E j \in 1..Len(written) : written[j] = name
    THEN synthCalls[CHOOSE j \in 1..Len(written) : written[j] = name]
    ELSE -1

\* the list handed to the concat command, as a timeline of clips and silences
ConcatTimeline ==
    [k \in 1..Len(concatInput) |->
        IF concatInput[k].kind = "segment"
        THEN Clip(LineOf(Basename(concatInput[k].path)))
        ELSE Silence(1000 * concatInput[k].seconds)]

\* a timeline without the durations of its silences
Shape(seq) ==
    [k \in 1..Len(seq) |-> IF seq[k].kind = "clip" THEN seq[k] ELSE [kind |-> "silence"]]

\* C18 (as claimed): the segments of a segment-mode run, combined by the
\* combiner that takes a pause P, are handed to the concat command as the same
\* sequence of clips and silences that combined mode assembles for the same
\* script without intro and outro: the same clips in the same places, and the
\* same silences (the directory being empty before the segment-mode run).
C18_TwoPassesEqualCombined ==
    (prog = "combine_podcast" /\ concatCalls > 0 /\ dirAtStart = {}) =>
        /\ Shape(ConcatTimeline) = Shape(RenderFrom(script, 0))
        /\ ConcatTimeline = RenderFrom(script, 0)

C20_NoRetry ==
    /\ \A a, b \in 1..Len(synthCalls) : a < b => synthCalls[a] < synthCalls[b]
    /\ exportCalls <= 1
    /\ concatCalls <= 1
    /\ synthFailed # {} =>
          /\ pc = "done"
          /\ result = "False"
          /\ synthFailed = {synthCalls[Len(synthCalls)]}
    /\ raisedBy = "export" => (exportCalls = 1 /\ pc = "done" /\ result = "raised")
    /\ concatStatus \in {"nonzero", "raised"} =>
          /\ concatCalls = 1
          /\ pc \in {"cleanup", "finally", "done"}
          /\ pc = "done" => result = "False"

\* C20 witness: a combiner run over two segments has ended with result False
\* after its one concat command exited non-zero
C20_Witness ==
    /\ prog \in CombinerProgs
    /\ pc = "done"
    /\ concatStatus = "nonzero"
    /\ concatCalls = 1
    /\ result = "False"
    /\ Len(segment_files) = 2

\* C21 (as claimed, for the runs that returned success): when a run of any
\* entry point has returned True, no file it created exists besides its output
\* artifacts: no per-line temporary file, no list file, no silence file, and no
\* reference sample that the run created in voice_samples/.
C21_OnlyOutputArtifactsRemain ==
    (pc = "done" /\ result = "True") =>
        /\ tempFiles = {}
        /\ ~listFile
        /\ silenceFiles = {}
        /\ createdSamples \cap sampleFiles = {}

\* C22: in a run of generate_podcast.py every call of text_to_speech runs the
\* variant fixed by the API key of the constructor (remote with a key,
\* placeholder without), one variant per call, and a remote call that failed is
\* the last call of the run: the run returns False with no file and no clip for
\* that line.
C22_OneVariantPerRun ==
    prog = "generate_podcast" =>
        /\ Len(variantCalls) = Len(synthCalls)
        /\ \A k \in 1..Len(variantCalls) :
              variantCalls[k] = (IF api_key THEN "remote" ELSE "placeholder")
        /\ \A k \in 1..Len(synthCalls) :
              synthCalls[k] \in synthFailed =>
                  /\ api_key
                  /\ k = Len(synthCalls)
                  /\ pc = "done"
                  /\ result = "False"
                  /\ \A f \in tempFiles : f[2] # synthCalls[k]
                  /\ \A j \in 1..Len(podcast_audio) :
                        IsClip(podcast_audio[j]) => podcast_audio[j].line # synthCalls[k]

\* a run with an API key whose second remote call failed
C22_Witness ==
    /\ prog = "generate_podcast"
    /\ api_key
    /\ Len(variantCalls) >= 2
    /\ synthFailed # {}
    /\ pc = "done"

\* C23 (as claimed): when combine_podcast_segments has invoked the
\* concatenation command, every silence entry of the list it read names a
\* temp_silence_<N>.mp3 that exists: no silence command that failed has left an
\* entry for a file that was never made.
C23_ListedSilencesExist ==
    (prog = "combine_podcast" /\ pc = "cleanup" /\ concatCalls > 0) =>
        \A k \in 1..Len(concatInput) :
            concatInput[k].kind = "silence" => concatInput[k].n \in silenceFiles

\* the run whose concatenation has read the list
Concatenated(p) == conc.run[p].pc \in {"remove_list", "glob", "remove_silence", "done"}
                   /\ conc.run[p].status # "none"

\* run p concatenated from a list holding a line written by the other run
ReadOthersList(p) ==
    /\ Concatenated(p)
    /\ \E k \in 1..Len(conc.run[p].read) : conc.run[p].read[k].by # p

\* the list was gone when run p concatenated
ListGoneAtConcat(p) == Concatenated(p) /\ ~conc.run[p].found

\* the silence file run p had made was gone when it concatenated from its list
SilenceGoneAtConcat(p) ==
    /\ Concatenated(p)
    /\ conc.run[p].made
    /\ conc.run[p].n \in conc.run[p].gone

\* run p's cleanup failed on a file that was removed already
CleanupRaised(p) == conc.run[p].raised

\* C24: two runs of the combiner in one working directory name one and the same
\* list file, and whenever a run has concatenated from a list holding the other
\* run's lines, has found its list or its silence file gone, or has had its
\* cleanup fail on a removed file, the two runs were in progress at the same
\* time.
C24_RunsShareTemporaries ==
    conc.active =>
        /\ \A p, q \in Procs :
              conc.names[FileListPath(p)] = conc.names[FileListPath(q)]
        /\ \A p \in Procs :
              (ReadOthersList(p) \/ ListGoneAtConcat(p) \/ SilenceGoneAtConcat(p)
                                 \/ CleanupRaised(p)) => conc.overlap

\* a run has concatenated from a list that holds lines of the other run
C24_Witness ==
    /\ conc.active
    /\ \E p \in Procs : ReadOthersList(p)

\* C25 (as claimed): after a segment-mode run has returned True, the audio
\* files of the output directory that a combiner's glob picks up are exactly the
\* segments the run wrote for the known-speaker lines of its script: no segment
\* file of an earlier run is among them.
C25_OnlyCurrentSegments ==
    (prog \in SegmentProgs /\ pc = "done" /\ result = "True") =>
        {n \in dirFiles : GlobMatches(n, SegmentExt(prog))}
            = {written[k] : k \in 1..Len(written)}

====
